---------------------------- MODULE Spec2Model ----------------------------
(***************************************************************************)
(* A model of economist.py: the page cache (Database), the image store     *)
(* (download_image), the article builder (Article.download, Article.build),*)
(* the section builder (Section.build) and the issue pipeline with its     *)
(* book assembly (Economist.fetch_issue, Economist.build).                 *)
(*                                                                         *)
(* Python values are modelled as follows.  None is the string "None"; an   *)
(* html body is one of the strings of Htmls, the empty body "" among them; *)
(* a url is a sequence of tokens (so that a leading "/" and the last path  *)
(* segment can be read), and '' or None in a url's place is the empty      *)
(* sequence NoUrl; html markup is a tagged tuple; an exception is the name *)
(* of its class, and NoExc stands for a normal return.                     *)
(***************************************************************************)
EXTENDS Integers, Sequences, FiniteSets, TLC

VARIABLES
    db,         \* the articles table of articles.db as committed: a set of rows <<url, html>>
    conn,       \* the sqlite connection of a Database: the rows its open transaction has inserted
    files,      \* the images directory: path -> size of the stored image, or NoFile
    dbCall,     \* Database alone: the last get/set call and its result
    firstSet,   \* Database alone: per url, the html of its first successful set
    dl,         \* Article.download alone: the last call and what it did
    procs,      \* two pipeline processes downloading against one store
    imgCall,    \* download_image alone: the last call and its result
    probe,      \* download_image alone: per image url, fetches, failed calls, paths returned
    rz,         \* the resize computation: input size and computed size
    il,         \* the interleaving loop of Article.build: list, position
    pc,         \* Economist.build: where the run is
    issue,      \* Economist: id, title, cover_img, sections
    book,       \* the EpubBook under assembly: cover, items, toc, spine
    error,      \* the exception that ended the run and where it came from
    cur,        \* Economist.build: the position of the loop the run is in
    attempts,   \* Article.build invocations made by Section.build, in order, with what each raised
    page,       \* the index page fetch_issue parsed
    coverFailed \* whether the fetch of the cover image raised

vars == <<db, conn, files, dbCall, firstSet, dl, procs, imgCall, probe, rz, il,
          pc, issue, book, error, cur, attempts, page, coverFailed>>

unusedByDb == <<files, dl, procs, imgCall, probe, rz, il,
            pc, issue, book, error, cur, attempts, page, coverFailed>>
pipeVars == <<pc, issue, book, error, cur, attempts, page, coverFailed>>

\* The value of a variable a specification does not use.
Idle == "idle"

---------------------------------------------------------------------------
(* Values *)

None == "None"
NoExc == "NoExc"
NoFile == <<>>
NoUrl == <<>>
NoPath == <<>>
NoSize == <<>>

\* Bodies a page fetch can return; "" is an empty 200 response.
Htmls == {"", "h1", "h2"}

\* Absolute article urls after Economist.absolute_url.
base_url == <<"http://www.economist.com">>
UrlA == base_url \o <<"/", "a">>
UrlB == base_url \o <<"/", "b">>
Urls == {UrlA, UrlB}

\* Python truthiness of a str-or-None value, as `if not self.html` reads it.
Falsy(v) == v = None \/ v = ""

Min(a, b) == IF a < b THEN a ELSE b

\* Python's round of the rational num / den (num >= 0, den > 0): to the
\* nearest integer, a tie to the even one.
PyRound(num, den) ==
    LET q == num \div den
        r == num % den
    IN  IF 2 * r < den THEN q
        ELSE IF 2 * r > den THEN q + 1
        ELSE IF q % 2 = 0 THEN q ELSE q + 1

---------------------------------------------------------------------------
(* Database *)

\* Database._ensure_schema on a store that holds nothing yet: the articles
\* table is a set of rows <<url, html>>.
EmptyDb == {}

\* sqlite3.connect: a connection in autocommit state.  A connection is
\* modelled by the rows inserted in its open transaction.
NewConn == {}

\* The table as a connection's statements see it: what is committed and
\* what its own open transaction has inserted.
View(d, cn) == d \cup cn

\* The rows SELECT ... WHERE url=? matches.
Rows(d, url) == {r \in d : r[1] = url}

\* Database.get: fetchone() of the matching rows; row[0] when there is a
\* row, None when there is none, and None as well when the query raised
\* (the except branch logs and falls through to return None).
DatabaseGet(d, cn, url, storageError) ==
    IF storageError THEN None
    ELSE IF Rows(View(d, cn), url) # {}
    THEN (CHOOSE r \in Rows(View(d, cn), url) : TRUE)[2]
    ELSE None

\* How the store can fail a set: not at all; "execute", the INSERT raises
\* before any lock is taken (the table is known to be missing when the
\* statement is prepared, the file cannot be read or written, another
\* connection holds it for a commit); "busy", the INSERT raises because
\* another connection holds the write lock; "schema", the table was dropped
\* since the connection last read the schema, and the INSERT raises 'no
\* such table' once it has taken the write lock; "commit", the INSERT is
\* made and the commit raises because another connection is reading.  An
\* INSERT that raises for a lock leaves none behind.
SetFailures == {"none", "execute", "busy", "schema", "commit"}

\* An insert into a table without the primary key, for comparison.
DatabaseSetNoKey(d, cn, url, html, failure) ==
    IF failure \in {"execute", "busy", "schema"}
    THEN [raised |-> "OperationalError", db |-> d, conn |-> cn]
    ELSE IF failure = "commit"
    THEN [raised |-> "OperationalError", db |-> d, conn |-> cn \cup {<<url, html>>}]
    ELSE [raised |-> NoExc, db |-> d \cup cn \cup {<<url, html>>}, conn |-> NewConn]

\* Database.set: INSERT into a table whose PRIMARY KEY is url, then commit.
\* set has try/finally and no except, so what execute or commit raises
\* leaves set, and nothing rolls the transaction back, which the INSERT
\* opened: sqlite3.OperationalError from the INSERT leaves the table as it
\* was; so does sqlite3.IntegrityError, raised when the connection sees a
\* row of the url; OperationalError from the commit leaves the row in the
\* open transaction, seen by this connection alone.  The commit of a later
\* set commits the whole transaction.
DatabaseSet(d, cn, url, html, failure) ==
    IF failure \in {"execute", "busy", "schema"}
    THEN [raised |-> "OperationalError", db |-> d, conn |-> cn]
    ELSE IF Rows(View(d, cn), url) # {}
    THEN [raised |-> "IntegrityError", db |-> d, conn |-> cn]
    ELSE IF failure = "commit"
    THEN [raised |-> "OperationalError", db |-> d, conn |-> cn \cup {<<url, html>>}]
    ELSE [raised |-> NoExc, db |-> d \cup cn \cup {<<url, html>>}, conn |-> NewConn]

\* The lock on the file a connection holds after a set, lock being the one
\* it held before (none, reserved or pending): an INSERT that raises
\* before it has the write lock takes none; the write lock stays with a
\* transaction whose INSERT raised once it had it ('no such table' of a
\* table dropped meanwhile, IntegrityError), the lock for the commit with
\* one whose commit raised; a commit releases.  It matters to the other
\* connections only.
LockAfterSet(lock, d, cn, url, failure) ==
    IF failure \in {"execute", "busy"} THEN lock
    ELSE IF failure = "schema" \/ Rows(View(d, cn), url) # {}
    THEN (IF lock = "pending" THEN lock ELSE "reserved")
    ELSE IF failure = "commit" THEN "pending"
    ELSE "none"

InitDb ==
    /\ db = EmptyDb
    /\ conn = NewConn
    /\ dbCall = [op |-> "none"]
    /\ firstSet = [u \in Urls |-> None]
    /\ files = Idle /\ dl = Idle /\ procs = Idle /\ imgCall = Idle
    /\ probe = Idle /\ rz = Idle /\ il = Idle
    /\ pc = Idle /\ issue = Idle /\ book = Idle /\ error = Idle /\ cur = Idle
    /\ attempts = Idle /\ page = Idle /\ coverFailed = Idle

\* A call of Database.get.
GetCall ==
    \E url \in Urls, storageError \in BOOLEAN :
        /\ dbCall' = [op |-> "get", url |-> url, storageError |-> storageError,
                      result |-> DatabaseGet(db, conn, url, storageError)]
        /\ UNCHANGED <<db, conn, firstSet>>
        /\ UNCHANGED unusedByDb

\* A call of Database.set.
SetCall ==
    \E url \in Urls, html \in Htmls, failure \in SetFailures :
        LET r == DatabaseSet(db, conn, url, html, failure) IN
        /\ dbCall' = [op |-> "set", url |-> url, html |-> html,
                      failure |-> failure, before |-> View(db, conn),
                      committed |-> db, raised |-> r.raised]
        /\ db' = r.db
        /\ conn' = r.conn
        /\ firstSet' = IF View(r.db, r.conn) # View(db, conn) /\ firstSet[url] = None
                       THEN [firstSet EXCEPT ![url] = html] ELSE firstSet
        /\ UNCHANGED unusedByDb

NextDb == GetCall \/ SetCall

SpecDb == InitDb /\ [][NextDb]_vars

\* C4: the cache, as the Database sees it, holds at most one entry per url;
\* a get that met no storage error returns None for a url no set has
\* inserted and otherwise exactly the html of the first set that inserted
\* it; a set that returns has stored and committed its html; a set on a url
\* that has an entry raises and leaves every entry as it was; no set ever
\* changes or removes an entry.
C4_CacheInsertOnly ==
    /\ \A r1 \in View(db, conn), r2 \in View(db, conn) : r1[1] = r2[1] => r1 = r2
    /\ \A u \in Urls : DatabaseGet(db, conn, u, FALSE) = firstSet[u]
    /\ (dbCall.op = "get" /\ ~dbCall.storageError)
          => dbCall.result = firstSet[dbCall.url]
    /\ (dbCall.op = "set" /\ Rows(dbCall.before, dbCall.url) # {})
          => (dbCall.raised # NoExc /\ View(db, conn) = dbCall.before)
    /\ (dbCall.op = "set" /\ Rows(dbCall.before, dbCall.url) # {}
           /\ dbCall.failure \in {"none", "commit"})
          => dbCall.raised = "IntegrityError"
    /\ dbCall.op = "set"
          => (dbCall.before \subseteq View(db, conn) /\ dbCall.committed \subseteq db)
    /\ (dbCall.op = "set" /\ Rows(dbCall.before, dbCall.url) = {}
           /\ dbCall.failure = "none")
          => dbCall.raised = NoExc
    /\ (dbCall.op = "set" /\ dbCall.raised = NoExc)
          => (<<dbCall.url, dbCall.html>> \in db
              /\ DatabaseGet(db, conn, dbCall.url, FALSE) = dbCall.html)

\* A second set of a url, with another html, has raised.
C4_Witness ==
    /\ dbCall.op = "set"
    /\ dbCall.raised = "IntegrityError"
    /\ firstSet[dbCall.url] # dbCall.html
    /\ \E u \in Urls : firstSet[u] = None

---------------------------------------------------------------------------
(* fetch and Article.download *)

\* What the network answers to a page request: a body, or a failure
\* (timeout, connection error, or a status raise_for_status rejects).
PageResponses == Htmls \cup {"RequestException"}

\* fetch: requests.get, then raise_for_status.
fetch(response) ==
    IF response = "RequestException"
    THEN [raised |-> "RequestException", text |-> None]
    ELSE [raised |-> NoExc, text |-> response]

\* Article.__init__.  content '' is the empty sequence of blocks.
Article(url, title) ==
    [url |-> url, title |-> title, html |-> "", images |-> <<>>, content |-> <<>>]

\* Article.download: self.html = db.get(url); if that is falsy (None, or a
\* stored ''), fetch the page and db.set it.  An exception of fetch or of
\* db.set leaves download with self.html as last assigned.  storageError
\* says whether the query of get fails, failure how the store fails set.
ArticleDownload(a, d, cn, storageError, failure, response) ==
    LET got == DatabaseGet(d, cn, a.url, storageError) IN
    IF ~Falsy(got)
    THEN [article |-> [a EXCEPT !.html = got], db |-> d, conn |-> cn, raised |-> NoExc,
          fetched |-> FALSE, setCalled |-> FALSE]
    ELSE LET res == fetch(response) IN
         IF res.raised # NoExc
         THEN [article |-> [a EXCEPT !.html = got], db |-> d, conn |-> cn,
               raised |-> res.raised, fetched |-> TRUE, setCalled |-> FALSE]
         ELSE LET w == DatabaseSet(d, cn, a.url, res.text, failure) IN
              [article |-> [a EXCEPT !.html = res.text], db |-> w.db, conn |-> w.conn,
               raised |-> w.raised, fetched |-> TRUE, setCalled |-> TRUE]

InitDownload ==
    /\ db = EmptyDb
    /\ conn = NewConn
    /\ dl = [op |-> "none"]
    /\ files = Idle /\ dbCall = Idle /\ firstSet = Idle /\ procs = Idle
    /\ imgCall = Idle /\ probe = Idle /\ rz = Idle /\ il = Idle
    /\ pc = Idle /\ issue = Idle /\ book = Idle /\ error = Idle /\ cur = Idle
    /\ attempts = Idle /\ page = Idle /\ coverFailed = Idle

\* A call of Article.download on a fresh article, in a single process.
DownloadCall ==
    \E url \in Urls, storageError \in BOOLEAN, failure \in SetFailures,
       response \in PageResponses :
        LET r == ArticleDownload(Article(url, "t"), db, conn, storageError,
                                 failure, response) IN
        /\ dl' = [op |-> "download", url |-> url, storageError |-> storageError,
                  failure |-> failure, before |-> View(db, conn),
                  fetched |-> r.fetched, setCalled |-> r.setCalled,
                  raised |-> r.raised, html |-> r.article.html]
        /\ db' = r.db
        /\ conn' = r.conn
        /\ UNCHANGED <<files, dbCall, firstSet, procs, imgCall, probe, rz, il>>
        /\ UNCHANGED pipeVars

NextDownload == DownloadCall

SpecDownload == InitDownload /\ [][NextDownload]_vars

\* C10: a download of a url that has a cache entry, whatever html is stored
\* (the empty string included), uses the stored html, fetches nothing, calls
\* no set and does not raise (the store answering without failure).
C10_CachedUrlNeverRefetched ==
    (dl.op = "download" /\ ~dl.storageError /\ dl.failure = "none"
       /\ Rows(dl.before, dl.url) # {})
        => /\ ~dl.fetched
           /\ ~dl.setCalled
           /\ dl.raised = NoExc
           /\ dl.html = DatabaseGet(dl.before, NewConn, dl.url, FALSE)

---------------------------------------------------------------------------
(* download_image *)

\* The default of download_image's max_width parameter.
max_width == 400

\* Image urls: scheme and host, "/", and the last path segment.
ImageUrl(k) == <<"http://cdn.example", "/", <<"img", k>>>>

\* os.path.basename of a url: its last path segment.
Basename(url) == url[Len(url)]

\* hashlib.md5(url).hexdigest(): a digest that is a function of the url
\* alone, taken to be free of collisions over the urls of the model.
Md5(url) == <<"md5", url>>

\* 'images/{}-{}'.format(md5, basename).
Filename(image_url) == <<"images/", Md5(image_url), "-", Basename(image_url)>>

\* The size with the height rounded to nearest instead, for comparison.
ResizedSizeRounded(w, h, mw) ==
    IF w > mw
    THEN <<mw, IF 2 * ((h * mw) % w) >= w THEN (h * mw) \div w + 1
               ELSE (h * mw) \div w>>
    ELSE <<w, h>>

\* The size download_image stores: for w > max_width, ratio = w / max_width
\* and size = (max_width, int(h / ratio)); int() truncates.  h / (w / mw) is
\* h * mw / w; the float quotient and the exact one truncate alike for the
\* widths of the model (multiples of 25, for which w / 400 is exact in
\* binary floating point).
ResizedSize(w, h, mw) ==
    IF w > mw THEN <<mw, (h * mw) \div w>> ELSE <<w, h>>

\* Lines 270-276 for a decoded image of size (w, h): the size to store, or
\* the ValueError of image.resize, which takes no height (or width) below 1:
\* int(h / ratio) is 0 when h * max_width < w.
ImageResize(w, h, mw) ==
    LET size == ResizedSize(w, h, mw) IN
    IF w > mw /\ size[2] < 1
    THEN [raised |-> "ValueError", size |-> NoSize]
    ELSE [raised |-> NoExc, size |-> size]

\* download_image without its os.path.exists test, for comparison.
download_image_no_exists_check(image_url, fs, response) ==
    LET filename == Filename(image_url) IN
    IF response.kind # "image"
    THEN [path |-> NoPath, files |-> fs, raised |-> response.kind, fetched |-> TRUE]
    ELSE LET resized == ImageResize(response.size[1], response.size[2], max_width) IN
    IF resized.raised # NoExc
    THEN [path |-> NoPath, files |-> fs, raised |-> resized.raised, fetched |-> TRUE]
    ELSE IF response.save # "ok"
    THEN [path |-> NoPath, files |-> fs, raised |-> response.save, fetched |-> TRUE]
    ELSE [path |-> filename,
          files |-> [fs EXCEPT ![filename] = resized.size],
          raised |-> NoExc, fetched |-> TRUE]

\* download_image: return the path at once when the file exists; otherwise
\* fetch the bytes (may raise), decode them (Image.open may raise), resize
\* when wider than max_width (raises when the height comes to 0), and save
\* (raises before writing when the file name's extension names no image
\* format).
download_image(image_url, fs, response) ==
    LET filename == Filename(image_url) IN
    IF fs[filename] # NoFile
    THEN [path |-> filename, files |-> fs, raised |-> NoExc, fetched |-> FALSE]
    ELSE IF response.kind # "image"
    THEN [path |-> NoPath, files |-> fs, raised |-> response.kind, fetched |-> TRUE]
    ELSE LET resized == ImageResize(response.size[1], response.size[2], max_width) IN
    IF resized.raised # NoExc
    THEN [path |-> NoPath, files |-> fs, raised |-> resized.raised, fetched |-> TRUE]
    ELSE IF response.save # "ok"
    THEN [path |-> NoPath, files |-> fs, raised |-> response.save, fetched |-> TRUE]
    ELSE [path |-> filename,
          files |-> [fs EXCEPT ![filename] = resized.size],
          raised |-> NoExc, fetched |-> TRUE]

\* Bounds of the image store taken alone.
NumImageUrls == 2
MaxFailedCalls == 2

ImageUrls == {ImageUrl(k) : k \in 1..NumImageUrls}
ImageSizes == {<<300, 7>>, <<800, 7>>, <<800, 1>>}

\* What the network and the decoder answer for an image url.
ImageResponses(sizes) ==
    {[kind |-> "RequestException"], [kind |-> "UnidentifiedImageError"]}
    \cup {[kind |-> "image", size |-> sz, save |-> sv] :
             sz \in sizes, sv \in {"ok", "ValueError"}}

\* The images directory with no file in it.
NoFiles(urls) == [f \in {Filename(u) : u \in urls} |-> NoFile]

InitImg ==
    /\ files = NoFiles(ImageUrls)
    /\ imgCall = [op |-> "none"]
    /\ probe = [u \in ImageUrls |-> [fetches |-> 0, fails |-> 0, paths |-> {}]]
    /\ db = Idle /\ conn = Idle /\ dbCall = Idle /\ firstSet = Idle /\ dl = Idle /\ procs = Idle
    /\ rz = Idle /\ il = Idle
    /\ pc = Idle /\ issue = Idle /\ book = Idle /\ error = Idle /\ cur = Idle
    /\ attempts = Idle /\ page = Idle /\ coverFailed = Idle

\* A call of download_image.
DownloadImageCall ==
    \E u \in ImageUrls, response \in ImageResponses(ImageSizes) :
        LET r == download_image(u, files, response) IN
        /\ (r.raised # NoExc) => probe[u].fails < MaxFailedCalls
        /\ imgCall' = [op |-> "download_image", url |-> u, before |-> files,
                       path |-> r.path, raised |-> r.raised, fetched |-> r.fetched]
        /\ files' = r.files
        /\ probe' = [probe EXCEPT ![u] =
              [fetches |-> @.fetches + (IF r.fetched THEN 1 ELSE 0),
               fails |-> @.fails + (IF r.raised # NoExc THEN 1 ELSE 0),
               paths |-> IF r.raised = NoExc THEN @.paths \cup {r.path} ELSE @.paths]]
        /\ UNCHANGED <<db, conn, dbCall, firstSet, dl, procs, rz, il>>
        /\ UNCHANGED pipeVars

NextImg == DownloadImageCall

SpecImg == InitImg /\ [][NextImg]_vars

\* C8: every normal return for a url gives the one path that url names, and
\* different urls name different paths; a call that finds the file returns
\* without fetching and leaves the directory alone, so a url whose calls
\* never failed is fetched at most once; a call that raises leaves no file
\* at the url's path, and a normal return leaves one.
C8_ImageDownloadIdempotent ==
    /\ \A u \in ImageUrls : probe[u].paths \subseteq {Filename(u)}
    /\ \A u \in ImageUrls, v \in ImageUrls :
          (probe[u].paths \cap probe[v].paths # {}) => u = v
    /\ \A u \in ImageUrls : probe[u].fails = 0 => probe[u].fetches <= 1
    /\ \A u \in ImageUrls :
          probe[u].fetches <= probe[u].fails + 1
    /\ imgCall.op = "download_image" =>
          /\ imgCall.before[Filename(imgCall.url)] # NoFile
                => (~imgCall.fetched /\ imgCall.raised = NoExc /\ files = imgCall.before)
          /\ imgCall.raised # NoExc => files[Filename(imgCall.url)] = NoFile
          /\ imgCall.raised = NoExc => files[Filename(imgCall.url)] # NoFile

\* A url fetched once successfully has been asked for again and came back
\* from the directory, while another url's call has failed.
C8_Witness ==
    /\ imgCall.op = "download_image"
    /\ imgCall.before[Filename(imgCall.url)] # NoFile
    /\ probe[imgCall.url].fetches = 1
    /\ probe[imgCall.url].fails = 0
    /\ \E v \in ImageUrls : probe[v].fails > 0 /\ files[Filename(v)] = NoFile

---------------------------------------------------------------------------
(* The resize computation of download_image *)

\* Bounds of the sizes tried: widths are the multiples of 25 up to
\* 25 * MaxWidthUnits, heights run from 1 to MaxHeight.
MaxWidthUnits == 40
MaxHeight == 9

Widths == {25 * k : k \in 1..MaxWidthUnits}
Heights == 1..MaxHeight

InitResize ==
    /\ rz \in [w : Widths, h : Heights, size : {NoSize}, raised : {None}]
    /\ db = Idle /\ conn = Idle /\ files = Idle /\ dbCall = Idle /\ firstSet = Idle /\ dl = Idle
    /\ procs = Idle /\ imgCall = Idle /\ probe = Idle /\ il = Idle
    /\ pc = Idle /\ issue = Idle /\ book = Idle /\ error = Idle /\ cur = Idle
    /\ attempts = Idle /\ page = Idle /\ coverFailed = Idle

\* Lines 270-276 applied to a decoded image of size (w, h).
Resize ==
    /\ rz.raised = None
    /\ LET r == ImageResize(rz.w, rz.h, max_width) IN
       rz' = [rz EXCEPT !.size = r.size, !.raised = r.raised]
    /\ UNCHANGED <<db, conn, files, dbCall, firstSet, dl, procs, imgCall, probe, il>>
    /\ UNCHANGED pipeVars

NextResize == Resize

SpecResize == InitResize /\ [][NextResize]_vars

\* C9 as stated: an image wider than max_width is stored max_width wide
\* and round(h / (w / max_width)) high.
C9_HeightIsRounded ==
    (rz.raised # None /\ rz.w > max_width)
        => rz.size = <<max_width, PyRound(rz.h * max_width, rz.w)>>

\* C9 amended: for an image wider than max_width the height is the quotient
\* h / (w / max_width) truncated, the integer k with
\* k * w <= h * max_width < (k + 1) * w; when k is 0 the resize raises
\* ValueError and there is no size to store; otherwise the size is
\* (max_width, k), for a width of 800 with k = h / 2 rounded down.  An image
\* no wider than max_width keeps its size.
C9_HeightIsTruncated ==
    rz.raised # None =>
        IF rz.w > max_width
        THEN IF rz.h * max_width < rz.w
             THEN rz.raised = "ValueError" /\ rz.size = NoSize
             ELSE /\ rz.raised = NoExc
                  /\ rz.size[1] = max_width
                  /\ rz.size[2] >= 1
                  /\ rz.size[2] * rz.w <= rz.h * max_width
                  /\ rz.h * max_width < (rz.size[2] + 1) * rz.w
                  /\ (rz.w = 2 * max_width => 2 * rz.size[2] \in {rz.h, rz.h - 1})
        ELSE rz.raised = NoExc /\ rz.size = <<rz.w, rz.h>>

\* An 800 wide image of odd height has been resized.
C9_Witness ==
    /\ rz.raised = NoExc
    /\ rz.w = 2 * max_width
    /\ rz.h % 2 = 1
    /\ rz.size = <<max_width, (rz.h - 1) \div 2>>

---------------------------------------------------------------------------
(* The interleaving loop of Article.build *)

\* Html blocks of an article's content.
H1(title) == <<"<h1>", title>>
ImgTag(filename) == <<"<center><img>", filename>>
Paragraph(k) == <<"p", k>>

\* An insert that reads pos as a 1-based index, for comparison.
ListInsertOneBased(list, pos, x) ==
    SubSeq(list, 1, pos - 1) \o <<x>> \o SubSeq(list, pos, Len(list))

\* list.insert(pos, x) for pos >= 0: x goes before the element at 0-based
\* index pos, and at the end when pos is beyond the list.
ListInsert(list, pos, x) ==
    LET k == IF pos > Len(list) THEN Len(list) ELSE pos IN
    SubSeq(list, 1, k) \o <<x>> \o SubSeq(list, k + 1, Len(list))

\* pos = round(i * rate) + i with rate = len(paragraphs) / (len(images) + 1),
\* the lengths taken before the loop.  i * rate is i * nPar / (nImg + 1); the
\* float product rounds as the exact quotient does for every nPar <= 14.
InsertPos(i, nPar, nImg) == PyRound(i * nPar, nImg + 1) + i

\* One iteration of the loop of lines 103-108, for the i-th image.  st holds
\* the paragraph list, self.images and the images directory.
LoopBody(st, imgs, i, nPar, responseOf) ==
    LET pos == InsertPos(i, nPar, Len(imgs))
        r == download_image(imgs[i], st.files, responseOf[imgs[i]])
    IN  IF r.raised # NoExc
        THEN [st EXCEPT !.raised = r.raised]
        ELSE [paragraphs |-> ListInsert(st.paragraphs, pos, ImgTag(r.path)),
              images |-> Append(st.images, r.path),
              files |-> r.files,
              raised |-> NoExc]

\* The loop from its i-th iteration on; an exception ends it.
RECURSIVE InterleaveFrom(_, _, _, _, _)
InterleaveFrom(st, imgs, i, nPar, responseOf) ==
    IF i > Len(imgs) \/ st.raised # NoExc THEN st
    ELSE InterleaveFrom(LoopBody(st, imgs, i, nPar, responseOf),
                        imgs, i + 1, nPar, responseOf)

\* Bounds of the loop taken alone.
MaxParagraphs == 8
MaxImages == 4

InitInterleave ==
    /\ \E nPar \in 1..MaxParagraphs, nImg \in 0..MaxImages :
          il = [imgs |-> [k \in 1..nImg |-> ImageUrl(k)],
                nPar |-> nPar,
                i |-> 0,
                prev |-> <<>>,
                st |-> [paragraphs |-> [k \in 1..nPar |-> Paragraph(k)],
                        images |-> <<>>,
                        files |-> NoFiles({ImageUrl(k) : k \in 1..nImg}),
                        raised |-> NoExc]]
    /\ db = Idle /\ conn = Idle /\ files = Idle /\ dbCall = Idle /\ firstSet = Idle /\ dl = Idle
    /\ procs = Idle /\ imgCall = Idle /\ probe = Idle /\ rz = Idle
    /\ pc = Idle /\ issue = Idle /\ book = Idle /\ error = Idle /\ cur = Idle
    /\ attempts = Idle /\ page = Idle /\ coverFailed = Idle

\* The next iteration of the loop; the image's download succeeds or raises.
InterleaveStep ==
    /\ il.i < Len(il.imgs)
    /\ il.st.raised = NoExc
    /\ \E response \in ImageResponses({<<300, 7>>}) :
          il' = [il EXCEPT
                   !.i = @ + 1,
                   !.prev = il.st.paragraphs,
                   !.st = LoopBody(il.st, il.imgs, il.i + 1, il.nPar,
                                   [u \in {il.imgs[il.i + 1]} |-> response])]
    /\ UNCHANGED <<db, conn, files, dbCall, firstSet, dl, procs, imgCall, probe, rz>>
    /\ UNCHANGED pipeVars

NextInterleave == InterleaveStep

SpecInterleave == InitInterleave /\ [][NextInterleave]_vars

\* The index the claim names for the image just handled.
C3_Index == PyRound(il.i * il.nPar, Len(il.imgs) + 1) + il.i

\* The image just handled has been inserted.
C3_Inserted == il.i >= 1 /\ il.st.raised = NoExc

\* C3 as stated: image i is found at 0-based index round(i * rate) + i of the
\* paragraph list that images 1..i-1 had already been inserted into.
C3_InsertedAtFormulaIndex ==
    C3_Inserted =>
        /\ Len(il.st.paragraphs) > C3_Index
        /\ il.st.paragraphs[C3_Index + 1] = ImgTag(Filename(il.imgs[il.i]))

\* C3 amended: image i is inserted at 0-based index round(i * rate) + i of
\* the list as it stands after images 1..i-1, or at its end when that index
\* is beyond the list (round being Python's, ties to even); the elements
\* before and after keep their order.  For six paragraphs and two images the
\* indices are 3 and 6 and the result is p1,p2,p3,img1,p4,p5,img2,p6.
C3_InsertedAtClampedIndex ==
    /\ C3_Inserted =>
          LET k == Min(C3_Index, Len(il.prev)) IN
          /\ Len(il.st.paragraphs) = Len(il.prev) + 1
          /\ il.st.paragraphs[k + 1] = ImgTag(Filename(il.imgs[il.i]))
          /\ \A j \in 1..k : il.st.paragraphs[j] = il.prev[j]
          /\ \A j \in (k + 1)..Len(il.prev) : il.st.paragraphs[j + 1] = il.prev[j]
    /\ (C3_Inserted /\ il.nPar = 6 /\ Len(il.imgs) = 2) =>
          /\ il.i = 1 => C3_Index = 3
          /\ il.i = 2 =>
                /\ C3_Index = 6
                /\ il.st.paragraphs =
                      <<Paragraph(1), Paragraph(2), Paragraph(3),
                        ImgTag(Filename(ImageUrl(1))),
                        Paragraph(4), Paragraph(5),
                        ImgTag(Filename(ImageUrl(2))), Paragraph(6)>>

\* The second of two images has gone into six paragraphs.
C3_Witness ==
    /\ C3_Inserted
    /\ il.nPar = 6 /\ Len(il.imgs) = 2 /\ il.i = 2
    /\ il.st.paragraphs[7] = ImgTag(Filename(ImageUrl(2)))

---------------------------------------------------------------------------
(* Article.build *)

\* '<br>'.join(blocks), as a sequence of blocks and separators.
RECURSIVE JoinBr(_)
JoinBr(blocks) ==
    IF Len(blocks) <= 1 THEN blocks
    ELSE <<Head(blocks), "<br>">> \o JoinBr(Tail(blocks))

\* newspaper's has_top_image(): top_image is neither None nor ''.
HasTopImage(ex) == ex.top # NoUrl

\* Lines 81-111 of Article.build, after the download.  env is what the
\* world answers: newspaper's extraction of the blog-post fragment (text,
\* images, top image; or an exception) and the response for each image url.
\* self.content is assigned in the last statement only; self.images and
\* the images directory keep what was done before an exception.
ArticleCompose(a, fs, env) ==
    IF env.extract.kind = "ExtractError"
    THEN [article |-> a, files |-> fs, raised |-> "ExtractError"]
    ELSE
    LET ex == env.extract
        header == <<H1(a.title)>>
        top == IF HasTopImage(ex)
               THEN download_image(ex.top, fs, env.img[ex.top])
               ELSE [path |-> NoPath, files |-> fs, raised |-> NoExc, fetched |-> FALSE]
    IN  IF top.raised # NoExc
        THEN [article |-> a, files |-> fs, raised |-> top.raised]
        ELSE
        LET images1 == IF HasTopImage(ex) THEN Append(a.images, top.path)
                       ELSE a.images
            content1 == IF HasTopImage(ex) THEN Append(header, ImgTag(top.path))
                        ELSE header
            rest == SelectSeq(ex.images, LAMBDA i : i # ex.top)
            loop == InterleaveFrom([paragraphs |-> ex.text, images |-> images1,
                                    files |-> top.files, raised |-> NoExc],
                                   rest, 1, Len(ex.text), env.img)
        IN  IF loop.raised # NoExc
            THEN [article |-> [a EXCEPT !.images = loop.images],
                  files |-> loop.files, raised |-> loop.raised]
            ELSE [article |-> [a EXCEPT
                                  !.images = loop.images,
                                  !.content = content1 \o JoinBr(loop.paragraphs)],
                  files |-> loop.files, raised |-> NoExc]

\* Article.build from the return of self.download(db), dwn: an exception of
\* the download leaves build; otherwise lines 81-111 run.
ArticleBuildAfter(dwn, fs, env) ==
    IF dwn.raised # NoExc
    THEN [article |-> dwn.article, db |-> dwn.db, conn |-> dwn.conn,
          files |-> fs, raised |-> dwn.raised]
    ELSE LET c == ArticleCompose(dwn.article, fs, env) IN
         [article |-> c.article, db |-> dwn.db, conn |-> dwn.conn,
          files |-> c.files, raised |-> c.raised]

\* Article.build: the download, then the composition; env also says whether
\* the cache query fails, how the store fails the insert, and what the page
\* request answers.
ArticleBuild(a, d, cn, fs, env) ==
    ArticleBuildAfter(
        ArticleDownload(a, d, cn, env.storageError, env.failure, env.page), fs, env)

---------------------------------------------------------------------------
(* Section.build, Economist.fetch_issue, Economist.build *)

\* Bounds of the issue: list items (sections) on the index page, and links
\* (articles) on it in all.
MaxSections == 2
MaxArticles == 2

\* Bound of a section built alone: its articles.
MaxSectionArticles == 3

print_edition == base_url \o <<"/printedition/">>
author == "The Economist"
language == "en"

\* Economist.absolute_url: base_url + url when url starts with '/'.
absolute_url(url) == IF Head(url) = "/" THEN base_url \o url ELSE url

\* What a link's spans join to (' - '.join), taken to differ from link to
\* link of one page; and the text of a list item's list__title.
LinkTitle(si, ai) == <<"title", si, ai>>
SectionName(si) == <<"section", si>>

\* hrefs of the index page: one relative, one absolute already.
Hrefs == {<<"/", "a">>, UrlB}
CoverUrl == <<"http://cdn.example", "/", "cover.jpg">>
Dates == {"2017-01-07"}

\* The cover widget of an index page: no img element, an img whose src is
\* CoverUrl, or an img that has no src attribute.
Covers == {"none", "img", "img without src"}

\* The element an index page lacks, if any: div.main-content, ul.list, or
\* the list__title of one list item.
Missing == {"", "main-content", "ul.list", "list__title"}

RECURSIVE TotalLinks(_)
TotalLinks(lists) ==
    IF lists = <<>> THEN 0 ELSE Len(Head(lists)) + TotalLinks(Tail(lists))

\* The index pages tried: the resolved url ends in the issue date; a cover
\* widget; per list item, the hrefs of its links; the element the page
\* lacks and, for a list__title, the list item that lacks it.
IndexPages ==
    LET LinkLists == UNION {[1..n -> Hrefs] : n \in 0..MaxArticles}
        Lists == UNION {[1..k -> LinkLists] : k \in 0..MaxSections}
        Pages == [url : {print_edition \o <<d>> : d \in Dates},
                  cover : Covers,
                  lists : {x \in Lists : TotalLinks(x) <= MaxArticles},
                  missing : Missing,
                  at : 0..MaxSections]
    IN  {res \in Pages :
            IF res.missing = "list__title" THEN res.at \in 1..Len(res.lists)
            ELSE res.at = 0}

\* Section.__init__.
Section(title, articles) == [title |-> title, articles |-> articles]

\* Economist.__init__, without the Database it opens.
Economist ==
    [id |-> "", title |-> "", html |-> "", cover_img |-> NoUrl, sections |-> <<>>]

\* Economist.fetch_issue on a fetched index page.  The fields are assigned
\* as the statements run, so an exception leaves those assigned before it:
\* id and title first; soup.find on a page without div.main-content raises
\* AttributeError (soup is None); cover['src'] raises KeyError on an img
\* without src; main_list.find_all raises AttributeError on a page without
\* ul.list; a list item without list__title raises AttributeError after the
\* sections of the items before it have been appended.
fetch_issue(self, res) ==
    LET date == res.url[Len(res.url)]
        named == [self EXCEPT !.id = <<"the_economist_", date>>,
                              !.title = <<"The Economist - ", date>>]
        covered == [named EXCEPT
                       !.cover_img = IF res.cover = "img" THEN CoverUrl ELSE @]
        n == IF res.missing = "list__title" THEN res.at - 1 ELSE Len(res.lists)
        listed == [covered EXCEPT
                      !.sections = @ \o
                          [si \in 1..n |->
                              Section(SectionName(si),
                                      [ai \in 1..Len(res.lists[si]) |->
                                          Article(absolute_url(res.lists[si][ai]),
                                                  LinkTitle(si, ai))])]]
    IN  IF res.missing = "main-content"
        THEN [self |-> named, raised |-> "AttributeError"]
        ELSE IF res.cover = "img without src"
        THEN [self |-> named, raised |-> "KeyError"]
        ELSE IF res.missing = "ul.list"
        THEN [self |-> covered, raised |-> "AttributeError"]
        ELSE IF res.missing = "list__title"
        THEN [self |-> listed, raised |-> "AttributeError"]
        ELSE [self |-> listed, raised |-> NoExc]

\* The <<section, article>> positions of an issue, in the order the loops
\* of Economist.build and Section.build visit them.
RECURSIVE PositionsFrom(_, _)
PositionsFrom(sections, si) ==
    IF si > Len(sections) THEN <<>>
    ELSE [ai \in 1..Len(sections[si].articles) |-> <<si, ai>>]
         \o PositionsFrom(sections, si + 1)

Positions(sections) == PositionsFrom(sections, 1)

\* The exception classes the model raises; all derive from Exception.
Exceptions ==
    {"RequestException", "IntegrityError", "OperationalError", "ExtractError",
     "UnidentifiedImageError", "ValueError", "AttributeError", "KeyError",
     "IndexError"}

\* A handler for request failures only, for comparison.
SectionBuildCatchesFetchOnly(exc) == exc = "RequestException"

\* Section.build's `except Exception`.
SectionBuildCatches(exc) == exc \in Exceptions

\* What the world can answer during one Article.build of the pipeline: the
\* cache query fails or not; the store takes the insert or fails it; the
\* page comes or the fetch raises; newspaper parses two paragraphs, a top
\* image and one more image, or raises; each image request fails, or its
\* bytes do not decode, or the image is saved, or save rejects the file name.
PipeImageUrls == {ImageUrl(1), ImageUrl(2)}
PipeExtracts ==
    {[kind |-> "parsed", text |-> <<Paragraph(1), Paragraph(2)>>,
      images |-> <<ImageUrl(1), ImageUrl(2)>>, top |-> ImageUrl(1)]}
PipeImageResponses == ImageResponses({<<800, 7>>})
ComposeEnvs ==
    [extract : PipeExtracts \cup {[kind |-> "ExtractError"]},
     img : [PipeImageUrls -> PipeImageResponses]]
DownloadEnvs ==
    [storageError : BOOLEAN, failure : SetFailures,
     page : {"", "h1", "RequestException"}]
BuildEnv(de, ce) ==
    [storageError |-> de.storageError, failure |-> de.failure, page |-> de.page,
     extract |-> ce.extract, img |-> ce.img]
BuildEnvs == {BuildEnv(de, ce) : de \in DownloadEnvs, ce \in ComposeEnvs}

\* What Article.build can do to article a from the store and the images
\* directory as they stand: ArticleBuild(a, d, cn, fs, env) over the env of
\* BuildEnvs, collected by what the download returned.
ArticleBuilds(a, d, cn, fs) ==
    LET dwns == {ArticleDownload(a, d, cn, de.storageError, de.failure, de.page) :
                    de \in DownloadEnvs}
    IN  UNION {{ArticleBuildAfter(dwn, fs, ce) : ce \in ComposeEnvs} : dwn \in dwns}

NoError == [exc |-> NoExc, at |-> None]

\* epub.EpubHtml for a built article, and epub.EpubImage for a file.
EpubHtml(a) ==
    [kind |-> "html", title |-> a.title, file_name |-> <<a.title, ".xhtml">>,
     lang |-> language, content |-> a.content]
EpubImage(filename) == [kind |-> "image", file_name |-> filename]

RECURSIVE Flatten(_)
Flatten(seqs) == IF seqs = <<>> THEN <<>> ELSE Head(seqs) \o Flatten(Tail(seqs))

\* The items list without the skip of empty content, for comparison.
SectionItemsAll(section) ==
    [k \in 1..Len(section.articles) |-> EpubHtml(section.articles[k])]

\* The items list of one section: a document per article, an article whose
\* content is empty being skipped.
SectionItems(section) ==
    LET built == SelectSeq(section.articles, LAMBDA a : a.content # <<>>) IN
    [k \in 1..Len(built) |-> EpubHtml(built[k])]

\* The EpubImage items of one section: the images of its built articles.
SectionImages(section) ==
    LET built == SelectSeq(section.articles, LAMBDA a : a.content # <<>>) IN
    Flatten([k \in 1..Len(built) |->
                [j \in 1..Len(built[k].images) |-> EpubImage(built[k].images[j])]])

\* Economist() on a first run: nothing cached, no image stored.
Init ==
    /\ pc = "start"
    /\ issue = Economist
    /\ db = EmptyDb
    /\ conn = NewConn
    /\ files = NoFiles(PipeImageUrls)
    /\ page = None
    /\ book = None
    /\ error = NoError
    /\ cur = 0
    /\ attempts = <<>>
    /\ coverFailed = FALSE
    /\ dbCall = Idle /\ firstSet = Idle /\ dl = Idle /\ procs = Idle
    /\ imgCall = Idle /\ probe = Idle /\ rz = Idle /\ il = Idle

unusedByBuild == <<dbCall, firstSet, dl, procs, imgCall, probe, rz, il>>

\* Economist.build up to its first loop: fetch_issue and info.  The fetch
\* of the index may raise, before anything is assigned; an exception of the
\* parsing leaves build with the issue as far as it was filled.
FetchIssue ==
    /\ pc = "start"
    /\ \/ /\ pc' = "aborted"
          /\ error' = [exc |-> fetch("RequestException").raised, at |-> "fetch_issue"]
          /\ UNCHANGED <<issue, page, cur>>
       \/ \E res \in IndexPages :
             LET r == fetch_issue(issue, res) IN
             /\ issue' = r.self
             /\ page' = res
             /\ IF r.raised # NoExc
                THEN /\ pc' = "aborted"
                     /\ cur' = cur
                     /\ error' = [exc |-> r.raised, at |-> "fetch_issue"]
                ELSE /\ pc' = IF TotalLinks(res.lists) = 0 THEN "cover"
                              ELSE "sections"
                     /\ cur' = 1
                     /\ error' = error
    /\ UNCHANGED <<db, conn, files, book, attempts, coverFailed>>
    /\ UNCHANGED unusedByBuild

\* One iteration of Section.build's loop (inside the loop over sections of
\* Economist.build): a.build(db), an exception logged and passed over.
BuildArticle ==
    /\ pc = "sections"
    /\ LET pos == Positions(issue.sections)[cur]
           a == issue.sections[pos[1]].articles[pos[2]]
           last == cur = Len(Positions(issue.sections))
       IN  \E r \in ArticleBuilds(a, db, conn, files) :
              /\ issue' = [issue EXCEPT !.sections[pos[1]].articles[pos[2]] = r.article]
              /\ db' = r.db
              /\ conn' = r.conn
              /\ files' = r.files
              /\ attempts' = Append(attempts, [pos |-> pos, raised |-> r.raised])
              /\ IF r.raised = NoExc \/ SectionBuildCatches(r.raised)
                 THEN /\ pc' = IF last THEN "cover" ELSE "sections"
                      /\ cur' = IF last THEN 1 ELSE cur + 1
                      /\ error' = error
                 ELSE /\ pc' = "aborted"
                      /\ cur' = cur
                      /\ error' = [exc |-> r.raised, at |-> "Section.build"]
    /\ UNCHANGED <<page, book, coverFailed>>
    /\ UNCHANGED unusedByBuild

\* The loop of lines 202-229 from section si on: per section its items, its
\* images and documents added to the book, its toc entry (items[0] raises
\* IndexError on an empty list) and its documents appended to the spine.
\* toc and spine are the locals of Economist.build, kept with the book.
RECURSIVE AssembleSections(_, _, _)
AssembleSections(bk, sections, si) ==
    IF si > Len(sections) THEN [book |-> bk, raised |-> NoExc]
    ELSE LET section == sections[si]
             items == SectionItems(section)
             withItems == [bk EXCEPT !.items = @ \o SectionImages(section) \o items]
         IN  IF items = <<>>
             THEN [book |-> withItems, raised |-> "IndexError"]
             ELSE AssembleSections(
                      [withItems EXCEPT
                          !.toc = Append(@, [title |-> section.title,
                                             href |-> items[1].file_name,
                                             items |-> items]),
                          !.spine = @ \o items],
                      sections, si + 1)

\* Lines 183-239 of Economist.build: the book and its metadata; the cover,
\* fetched afresh and unguarded; the spine's first entries; the sections;
\* the navigation files and write_epub.
Assemble ==
    /\ pc = "cover"
    /\ \E coverResponse \in {"RequestException", "bytes"} :
          LET fresh == [title |-> issue.title, identifier |-> issue.id,
                        language |-> language, author |-> author,
                        cover |-> FALSE, items |-> <<>>, toc |-> <<>>,
                        spine |-> <<>>, file |-> NoPath]
              covered == IF issue.cover_img # NoUrl
                         THEN [fresh EXCEPT !.cover = TRUE, !.spine = <<"cover", "nav">>]
                         ELSE [fresh EXCEPT !.spine = <<"nav">>]
              r == AssembleSections(covered, issue.sections, 1)
          IN  IF issue.cover_img # NoUrl /\ fetch(coverResponse).raised # NoExc
              THEN /\ pc' = "aborted"
                   /\ error' = [exc |-> fetch(coverResponse).raised, at |-> "cover"]
                   /\ coverFailed' = TRUE
                   /\ book' = fresh
              ELSE IF r.raised # NoExc
              THEN /\ pc' = "aborted"
                   /\ error' = [exc |-> r.raised, at |-> "toc"]
                   /\ coverFailed' = FALSE
                   /\ book' = r.book
              ELSE /\ pc' = "written"
                   /\ error' = error
                   /\ coverFailed' = FALSE
                   /\ book' = [r.book EXCEPT
                                 !.items = @ \o <<[kind |-> "ncx"], [kind |-> "nav"]>>,
                                 !.file = <<issue.id, ".epub">>]
    /\ UNCHANGED <<db, conn, files, issue, page, cur, attempts>>
    /\ UNCHANGED unusedByBuild

Next == FetchIssue \/ BuildArticle \/ Assemble

Spec == Init /\ [][Next]_vars

\* Section.build alone: one section of an issue, as fetch_issue leaves it.
InitSection ==
    /\ \E n \in 0..MaxSectionArticles : \E links \in [1..n -> Hrefs] :
          LET res == [url |-> print_edition \o <<"2017-01-07">>,
                      cover |-> "none", lists |-> <<links>>,
                      missing |-> "", at |-> 0]
          IN  /\ issue = fetch_issue(Economist, res).self
              /\ page = res
              /\ pc = IF n = 0 THEN "cover" ELSE "sections"
    /\ db = EmptyDb
    /\ conn = NewConn
    /\ files = NoFiles(PipeImageUrls)
    /\ book = None
    /\ error = NoError
    /\ cur = 1
    /\ attempts = <<>>
    /\ coverFailed = FALSE
    /\ dbCall = Idle /\ firstSet = Idle /\ dl = Idle /\ procs = Idle
    /\ imgCall = Idle /\ probe = Idle /\ rz = Idle /\ il = Idle

NextSection == BuildArticle

SpecSection == InitSection /\ [][NextSection]_vars

\* C1: Section.build never raises; it calls build on every article once, in
\* list order, whatever the earlier ones raised; the section keeps all its
\* articles; and an article's content is non-empty exactly when its own
\* build returned normally.
C1_SectionBuildResilient ==
    LET positions == Positions(issue.sections)
        art(k) == issue.sections[positions[k][1]].articles[positions[k][2]]
    IN  /\ pc # "aborted"
        /\ Len(attempts) = (IF pc = "sections" THEN cur - 1 ELSE Len(positions))
        /\ \A k \in 1..Len(attempts) : attempts[k].pos = positions[k]
        /\ Len(issue.sections) = Len(page.lists)
        /\ \A si \in 1..Len(page.lists) :
              /\ Len(issue.sections[si].articles) = Len(page.lists[si])
              /\ \A ai \in 1..Len(page.lists[si]) :
                    /\ issue.sections[si].articles[ai].url
                          = absolute_url(page.lists[si][ai])
                    /\ issue.sections[si].articles[ai].title = LinkTitle(si, ai)
        /\ \A k \in 1..Len(positions) :
              IF k <= Len(attempts)
              THEN (art(k).content # <<>>) <=> (attempts[k].raised = NoExc)
              ELSE art(k).content = <<>>

\* A section of three articles has been built: the fetch of the second
\* raised, the first and the third have content, the second has none.
C1_Witness ==
    /\ pc = "cover"
    /\ Len(issue.sections) = 1
    /\ Len(issue.sections[1].articles) = 3
    /\ Len(attempts) = 3
    /\ attempts[1].raised = NoExc
    /\ attempts[2].raised = "RequestException"
    /\ attempts[3].raised = NoExc
    /\ issue.sections[1].articles[1].content # <<>>
    /\ issue.sections[1].articles[2].content = <<>>
    /\ issue.sections[1].articles[3].content # <<>>

\* C2: a section none of whose articles has content is left out of the toc
\* and the spine, and the book is still written: no IndexError comes from
\* the empty item list.
C2_EmptySectionSkipped ==
    /\ error.exc # "IndexError"
    /\ pc = "written" => \A k \in 1..Len(book.toc) : book.toc[k].items # <<>>

\* The documents the claim expects in the spine: the articles with content,
\* in issue order.
C6_BuiltPositions ==
    SelectSeq(Positions(issue.sections),
              LAMBDA q : issue.sections[q[1]].articles[q[2]].content # <<>>)

\* C6: in the written book the spine is the cover (when the issue has a
\* cover image), the navigation entry, then one document per article with
\* content in issue order, and none for an article without; the toc lists
\* the sections that have documents, in order, each with its documents.
C6_SpineAndTocOrder ==
    pc = "written" =>
        LET prefix == IF issue.cover_img # NoUrl THEN <<"cover", "nav">> ELSE <<"nav">>
            n == Len(prefix)
            docs == SubSeq(book.spine, n + 1, Len(book.spine))
            withDocs == SelectSeq(issue.sections,
                           LAMBDA sec : \E k \in 1..Len(sec.articles) :
                                           sec.articles[k].content # <<>>)
        IN  /\ book.cover = (issue.cover_img # NoUrl)
            /\ Len(book.spine) = n + Len(C6_BuiltPositions)
            /\ SubSeq(book.spine, 1, n) = prefix
            /\ \A k \in 1..Len(C6_BuiltPositions) :
                  LET q == C6_BuiltPositions[k]
                      a == issue.sections[q[1]].articles[q[2]]
                  IN  /\ docs[k].kind = "html"
                      /\ docs[k].title = a.title
                      /\ docs[k].content = a.content
            /\ Len(book.toc) = Len(withDocs)
            /\ \A k \in 1..Len(withDocs) : book.toc[k].title = withDocs[k].title
            /\ Flatten([k \in 1..Len(book.toc) |-> book.toc[k].items]) = docs

\* A book with a cover has been written from a section whose first article
\* failed and whose second was built.
C6_Witness ==
    /\ pc = "written"
    /\ issue.cover_img # NoUrl
    /\ Len(issue.sections) = 1
    /\ Len(issue.sections[1].articles) = 2
    /\ issue.sections[1].articles[1].content = <<>>
    /\ issue.sections[1].articles[2].content # <<>>
    /\ Len(book.spine) = 3

\* C7: a failed fetch of the cover image does not abort the run: the book
\* is written, without a cover.
C7_CoverFailureTolerated ==
    coverFailed => (pc = "written" /\ book.file # NoPath /\ ~book.cover)

---------------------------------------------------------------------------
(* Two pipeline processes against one cache store *)

Procs == {"p1", "p2"}

\* A file save has opened and not yet written in full.
PartFile == <<"partial">>

\* A process at the start of Article.build for url u.  Besides the article
\* it holds the lock of its connection, whether its query found no row of
\* the url (miss), and the locals of build: the extraction, the header part
\* of content, the paragraph list, the image being handled (0 the top
\* image, i >= 1 the i-th of the others) and the decoded image
\* download_image is to save.
Proc(u) ==
    [pc |-> "get", article |-> Article(u, "t"), raised |-> NoExc, lock |-> "none",
     miss |-> FALSE,
     ex |-> [kind |-> "none"], content |-> <<>>, paragraphs |-> <<>>,
     i |-> 0, image |-> NoSize]

InitConc ==
    /\ procs \in [Procs -> {Proc(u) : u \in Urls}]
    /\ db = EmptyDb
    /\ conn = [p \in Procs |-> NewConn]
    /\ files = NoFiles(PipeImageUrls)
    /\ dbCall = Idle /\ firstSet = Idle /\ dl = Idle
    /\ imgCall = Idle /\ probe = Idle /\ rz = Idle /\ il = Idle
    /\ pc = Idle /\ issue = Idle /\ book = Idle /\ error = Idle /\ cur = Idle
    /\ attempts = Idle /\ page = Idle /\ coverFailed = Idle

unusedByConc == <<dbCall, firstSet, dl, imgCall, probe, rz, il>>

\* An exception leaves build and is logged by Section.build, the article
\* keeping what was assigned before it.
ProcRaise(pr, exc) == [pr EXCEPT !.pc = "failed", !.raised = exc]

\* The locks the connections of the other processes hold.
OtherLocks(p) == {procs[q].lock : q \in Procs \ {p}}

\* Whether the query of process p can fail, and must: a connection that
\* holds the file for a commit keeps every other one from reading.
GetErrors(p) == IF "pending" \in OtherLocks(p) THEN {TRUE} ELSE BOOLEAN

\* How the insert of process p can fail: it cannot begin while another
\* connection holds the file for a commit, and cannot take the write lock
\* while another holds it.  (A process queries before it inserts, so none
\* holds a read lock inside a transaction left open.)
ProcSetFailures(p) ==
    IF "pending" \in OtherLocks(p) THEN {"execute"}
    ELSE IF "reserved" \in OtherLocks(p) THEN {"execute", "busy"}
    ELSE SetFailures

\* Line 73 of Article.download in process p: the cache query.
ProcGet(p) ==
    /\ procs[p].pc = "get"
    /\ \E storageError \in GetErrors(p) :
          LET got == DatabaseGet(db, conn[p], procs[p].article.url, storageError) IN
          procs' = [procs EXCEPT ![p].article.html = got,
                                 ![p].miss = ~storageError
                                     /\ Rows(View(db, conn[p]), procs[p].article.url) = {},
                                 ![p].pc = IF Falsy(got) THEN "fetch" ELSE "parse"]
    /\ UNCHANGED <<db, conn, files>>
    /\ UNCHANGED unusedByConc /\ UNCHANGED pipeVars

\* Line 75 in process p: the page fetch.
ProcFetch(p) ==
    /\ procs[p].pc = "fetch"
    /\ \E response \in PageResponses :
          LET res == fetch(response) IN
          procs' = IF res.raised # NoExc
                   THEN [procs EXCEPT ![p] = ProcRaise(@, res.raised)]
                   ELSE [procs EXCEPT ![p].pc = "set", ![p].article.html = res.text]
    /\ UNCHANGED <<db, conn, files>>
    /\ UNCHANGED unusedByConc /\ UNCHANGED pipeVars

\* Line 76 in process p: the insert.
ProcSet(p) ==
    /\ procs[p].pc = "set"
    /\ \E failure \in ProcSetFailures(p) :
          LET w == DatabaseSet(db, conn[p], procs[p].article.url,
                               procs[p].article.html, failure)
              lock == LockAfterSet(procs[p].lock, db, conn[p],
                                   procs[p].article.url, failure)
          IN  /\ db' = w.db
              /\ conn' = [conn EXCEPT ![p] = w.conn]
              /\ procs' = IF w.raised # NoExc
                          THEN [procs EXCEPT ![p] = ProcRaise([@ EXCEPT !.lock = lock],
                                                              w.raised)]
                          ELSE [procs EXCEPT ![p].pc = "parse", ![p].lock = lock]
    /\ UNCHANGED files
    /\ UNCHANGED unusedByConc /\ UNCHANGED pipeVars

\* The process ends: its connection goes, the open transaction is rolled
\* back and its lock released.
ProcExit(p) ==
    /\ procs[p].pc \in {"built", "failed"}
    /\ procs' = [procs EXCEPT ![p].pc = "exited", ![p].lock = "none"]
    /\ conn' = [conn EXCEPT ![p] = NewConn]
    /\ UNCHANGED <<db, files>>
    /\ UNCHANGED unusedByConc /\ UNCHANGED pipeVars

\* The images other than the top image (line 99), and the url of the image
\* the process is handling.
ProcRest(pr) == SelectSeq(pr.ex.images, LAMBDA u : u # pr.ex.top)
ProcImage(pr) == IF pr.i = 0 THEN pr.ex.top ELSE ProcRest(pr)[pr.i]

\* The head of the loop of line 103 with pr.i the next image: download_image
\* is entered for it, or the loop is over and lines 110-111 assign content.
ProcLoop(pr) ==
    IF pr.i > Len(ProcRest(pr))
    THEN [pr EXCEPT !.article.content = pr.content \o JoinBr(pr.paragraphs),
                    !.pc = "built"]
    ELSE [pr EXCEPT !.pc = "exists"]

\* download_image has returned filename: lines 95-102 for the top image,
\* lines 106-108 for the i-th of the others.
ProcReturned(pr, filename) ==
    IF pr.i = 0
    THEN ProcLoop([pr EXCEPT !.article.images = Append(@, filename),
                             !.content = Append(@, ImgTag(filename)),
                             !.paragraphs = pr.ex.text,
                             !.i = 1,
                             !.image = NoSize])
    ELSE ProcLoop([pr EXCEPT !.article.images = Append(@, filename),
                             !.paragraphs =
                                 ListInsert(@, InsertPos(pr.i, Len(pr.ex.text),
                                                         Len(ProcRest(pr))),
                                            ImgTag(filename)),
                             !.i = pr.i + 1,
                             !.image = NoSize])

\* Lines 81-92 in process p: the extraction and the header; then the top
\* image if there is one, else lines 99-102.
ProcParse(p) ==
    /\ procs[p].pc = "parse"
    /\ \E extract \in PipeExtracts \cup {[kind |-> "ExtractError"]} :
          LET pr == procs[p]
              parsed == [pr EXCEPT !.ex = extract,
                                   !.content = <<H1(pr.article.title)>>]
          IN  procs' = [procs EXCEPT ![p] =
                  IF extract.kind = "ExtractError"
                  THEN ProcRaise(pr, "ExtractError")
                  ELSE IF HasTopImage(extract)
                  THEN [parsed EXCEPT !.i = 0, !.pc = "exists"]
                  ELSE ProcLoop([parsed EXCEPT !.paragraphs = extract.text,
                                               !.i = 1])]
    /\ UNCHANGED <<db, conn, files>>
    /\ UNCHANGED unusedByConc /\ UNCHANGED pipeVars

\* Line 264 of download_image in process p: a file there, whole or not,
\* makes it return the path.
ProcExists(p) ==
    /\ procs[p].pc = "exists"
    /\ LET filename == Filename(ProcImage(procs[p])) IN
       procs' = [procs EXCEPT ![p] =
                    IF files[filename] # NoFile THEN ProcReturned(@, filename)
                    ELSE [@ EXCEPT !.pc = "fetch_image"]]
    /\ UNCHANGED <<db, conn, files>>
    /\ UNCHANGED unusedByConc /\ UNCHANGED pipeVars

\* Lines 267-278 in process p up to the opening of the file: the bytes are
\* fetched, decoded and resized, and save reads the format off the file
\* name, raising when the extension names none.
ProcFetchImage(p) ==
    /\ procs[p].pc = "fetch_image"
    /\ \E response \in PipeImageResponses :
          procs' = [procs EXCEPT ![p] =
              IF response.kind # "image" THEN ProcRaise(@, response.kind)
              ELSE LET resized == ImageResize(response.size[1], response.size[2],
                                              max_width) IN
              IF resized.raised # NoExc THEN ProcRaise(@, resized.raised)
              ELSE IF response.save # "ok" THEN ProcRaise(@, response.save)
              ELSE [@ EXCEPT !.pc = "save", !.image = resized.size]]
    /\ UNCHANGED <<db, conn, files>>
    /\ UNCHANGED unusedByConc /\ UNCHANGED pipeVars

\* Line 278 in process p, first part: save opens the file for writing, which
\* creates or truncates it.
ProcSaveOpen(p) ==
    /\ procs[p].pc = "save"
    /\ files' = [files EXCEPT ![Filename(ProcImage(procs[p]))] = PartFile]
    /\ procs' = [procs EXCEPT ![p].pc = "write"]
    /\ UNCHANGED <<db, conn>>
    /\ UNCHANGED unusedByConc /\ UNCHANGED pipeVars

\* Line 278, second part, and line 279: the image is written and
\* download_image returns the path.
ProcSaveWrite(p) ==
    /\ procs[p].pc = "write"
    /\ LET filename == Filename(ProcImage(procs[p])) IN
       /\ files' = [files EXCEPT ![filename] = procs[p].image]
       /\ procs' = [procs EXCEPT ![p] = ProcReturned(@, filename)]
    /\ UNCHANGED <<db, conn>>
    /\ UNCHANGED unusedByConc /\ UNCHANGED pipeVars

NextConc ==
    \E p \in Procs :
        \/ ProcGet(p) \/ ProcFetch(p) \/ ProcSet(p) \/ ProcParse(p)
        \/ ProcExists(p) \/ ProcFetchImage(p) \/ ProcSaveOpen(p) \/ ProcSaveWrite(p)
        \/ ProcExit(p)

SpecConc == InitConc /\ [][NextConc]_vars

\* C5: when two processes have both queried the same url and found no
\* entry, the insert of the second, which meets the first writer's row, does
\* not cost it its article: IntegrityError is not what fails its build.
C5_DuplicateKeyNonFatal ==
    \A p \in Procs, q \in Procs :
        (p # q /\ procs[p].miss /\ procs[q].miss
           /\ procs[p].article.url = procs[q].article.url)
        => ~(procs[p].pc \in {"failed", "exited"}
             /\ procs[p].raised = "IntegrityError")

=============================================================================
